---------------------------- MODULE Spec2Model ----------------------------
(***************************************************************************)
(* teamigrate (src/main.go): an interactive loop that reads a GitHub URL   *)
(* from standard input, fetches the repository's metadata from GitHub and  *)
(* asks a Gitea instance to mirror it.                                      *)
(*                                                                         *)
(* Text is modelled by TLA+ strings (TLC evaluates Len, SubSeq and \o on    *)
(* them), one character per position, as Go's byte strings of ASCII text.  *)
(***************************************************************************)
EXTENDS Integers, Sequences, FiniteSets, TLC

VARIABLES
    options,    \* programOptions, loaded once by loadOptions
    fed,        \* every byte written to standard input so far
    pos,        \* how many of them the process has taken out of the stream
    stdinOpen,  \* FALSE once the writing end of standard input is closed
    pc,         \* where the process is: "loop", "read", "github", "gitea", "panicked"
    iter,       \* number of reader.ReadString calls that have returned
    raw,        \* what the last reader.ReadString returned (line 62)
    url,        \* the local url after line 63
    match,      \* the local match (line 66)
    log,        \* what this iteration wrote through log.Println / log.Printf
    net,        \* the requests this iteration handed to an HTTP client, in order
    ghResp,     \* GitHub's response as received by this iteration (or NoResp)
    giteaResp,  \* Gitea's response as received by this iteration (or NoResp)
    defers,     \* migrateRepo's stack of deferred closes, oldest first
    closes      \* per response body, how many times this iteration closed it

vars == <<options, fed, pos, stdinOpen, pc, iter, raw, url, match, log, net,
          ghResp, giteaResp, defers, closes>>

-----------------------------------------------------------------------------
(* Bounds of the model *)

\* number of writes to standard input in one run
MaxFeeds == 2

\* number of path pieces after the host in the lines given to the parser
MaxSegs == 4

-----------------------------------------------------------------------------
(* Text helpers *)

At(s, i) == SubSeq(s, i, i)

Min(a, b) == IF a <= b THEN a ELSE b

\* index of the first "\n" of s at or after i, 0 when there is none
RECURSIVE IndexNewline(_, _)
IndexNewline(s, i) ==
    IF i > Len(s) THEN 0
    ELSE IF At(s, i) = "\n" THEN i
    ELSE IndexNewline(s, i + 1)

-----------------------------------------------------------------------------
(* regexp `github\.com/([^/]+)/([^/]+)`, line 65 *)

\* the literal part of the pattern up to the first group; "." stands for `\.`
HostLiteral == "github.com/"

\* variant: the dot left unescaped, `github.com/...`, matches any character
DotMatches_Unescaped(c) == TRUE

\* `\.` matches the character "." only
DotMatches(c) == c = "."

\* the pattern's literal prefix matches s at i
LiteralAt(s, i) ==
    /\ i + Len(HostLiteral) - 1 <= Len(s)
    /\ \A k \in 1..Len(HostLiteral) :
          IF At(HostLiteral, k) = "."
          THEN DotMatches(At(s, i + k - 1))
          ELSE At(s, i + k - 1) = At(HostLiteral, k)

\* [^/]+ is greedy: the index just after the longest run of non-"/" characters
\* of s that starts at i (i itself when the run is empty)
RECURSIVE ClassRunEnd(_, _)
ClassRunEnd(s, i) ==
    IF i > Len(s) \/ At(s, i) = "/" THEN i ELSE ClassRunEnd(s, i + 1)

\* The match that starts at i, as <<whole, group 1, group 2>>, or <<>>.  Group 1
\* must be followed by "/": a shorter run than the greedy one is followed by a
\* non-"/" character, so backtracking finds nothing the greedy run does not.
\* Group 2 ends the pattern, so the greedy run is the one the engine prefers.
MatchAt(s, i) ==
    IF ~LiteralAt(s, i) THEN <<>>
    ELSE LET o  == i + Len(HostLiteral)
             oe == ClassRunEnd(s, o)
         IN  IF oe = o \/ oe > Len(s) THEN <<>>
             ELSE LET r  == oe + 1
                      re == ClassRunEnd(s, r)
                  IN  IF re = r THEN <<>>
                      ELSE <<SubSeq(s, i, re - 1), SubSeq(s, o, oe - 1),
                             SubSeq(s, r, re - 1)>>

\* the leftmost match at or after i
RECURSIVE FindFrom(_, _)
FindFrom(s, i) ==
    IF i > Len(s) THEN <<>>
    ELSE IF MatchAt(s, i) # <<>> THEN MatchAt(s, i)
    ELSE FindFrom(s, i + 1)

\* variant: the pattern anchored at the start of the line
FindStringSubmatch_Anchored(s) == MatchAt(s, 1)

\* re.FindStringSubmatch(url), line 66: unanchored, leftmost match
FindStringSubmatch(s) == FindFrom(s, 1)


-----------------------------------------------------------------------------
(* Standard input *)

\* bufio.NewReader(os.Stdin), line 60: a reader with bufio's default buffer
defaultBufSize == 4096

RECURSIVE Flatten(_)
Flatten(chunks) ==
    IF chunks = <<>> THEN "" ELSE Head(chunks) \o Flatten(Tail(chunks))

\* the bytes written to standard input that no reader has taken yet
Stdin == LET all == Flatten(fed) IN SubSeq(all, pos + 1, Len(all))

\* reader.ReadString('\n'), line 62, on a stream holding s: the text up to and
\* including the first "\n"; at end of input, whatever was there (the error,
\* io.EOF, is dropped by `url, _ :=`)
ReadString(s) ==
    LET p == IndexNewline(s, 1) IN IF p > 0 THEN SubSeq(s, 1, p) ELSE s

\* How many bytes the reader of line 60 takes out of the stream before
\* ReadString returns.  The reader fills its buffer with what one read of
\* os.Stdin hands over: a terminal hands over one line, a pipe or a file all it
\* holds, up to the free room of the buffer.  Whatever the reader holds beyond
\* the returned line is dropped with the reader when migrateRepo returns.
ReadAmounts(s) ==
    LET p == IndexNewline(s, 1)
        room == ((p + defaultBufSize - 1) \div defaultBufSize) * defaultBufSize
    IN  IF p > 0 THEN {p, Min(Len(s), room)} ELSE {Len(s)}

-----------------------------------------------------------------------------
(* HTTP requests *)

IsCTL(c) == c \in {"\t", "\r"}

\* net/url.Parse, called by http.NewRequest (lines 74, 134), rejects a control
\* character anywhere and a space in the host; u starts with "https://"
URLParseFails(u) ==
    LET h  == Len("https://") + 1
        he == ClassRunEnd(u, h)
    IN  \/ \E i \in 1..Len(u) : IsCTL(At(u, i))
        \/ \E i \in h..(he - 1) : At(u, i) = " "

\* lines 74-82
GitHubRequest(username, repoName) ==
    [method |-> "GET",
     url    |-> "https://api.github.com/repos/" \o username \o "/" \o repoName,
     auth   |-> "Bearer " \o options.GitHubToken,
     body   |-> <<>>]

\* variant: the token passed on for every repository
AuthToken_Always(repo) == options.GitHubToken

\* var authToken string; if repo.Private { authToken = options.GitHubToken }
AuthToken(repo) == IF repo.Private THEN options.GitHubToken ELSE ""

\* lines 113-127
MigrateOptions(repo) ==
    [AuthToken   |-> AuthToken(repo),
     CloneAddr   |-> repo.CloneURL,
     Description |-> repo.Description,
     Mirror      |-> TRUE,
     Private     |-> repo.Private,
     RepoName    |-> repo.Name,
     RepoOwner   |-> options.GiteaOwner,
     Service     |-> "github",
     Wiki        |-> TRUE]

\* lines 128-141; json.Marshal writes every field under its json tag
GiteaRequest(repo) ==
    LET o == MigrateOptions(repo)
    IN  [method |-> "POST",
         url    |-> "https://" \o options.GiteaInstance \o "/api/v1/repos/migrate",
         auth   |-> "Bearer " \o options.GiteaToken,
         body   |-> <<[auth_token  |-> o.AuthToken,
                       clone_addr  |-> o.CloneAddr,
                       description |-> o.Description,
                       mirror      |-> o.Mirror,
                       private     |-> o.Private,
                       repo_name   |-> o.RepoName,
                       repo_owner  |-> o.RepoOwner,
                       service     |-> o.Service,
                       wiki        |-> o.Wiki]>>]

-----------------------------------------------------------------------------
(* HTTP responses, as the servers and the network may produce them *)

NoResp == [err |-> TRUE, status |-> 0, body |-> [kind |-> "none"]]

\* client.Do returned an error: no response, no body
TransportError == [err |-> TRUE, status |-> 0, body |-> [kind |-> "error"]]

\* a body io.ReadAll fails on
BrokenBody == [kind |-> "readerr"]

\* a body that is not JSON (an HTML error page, an empty body)
TextBody == [kind |-> "text"]

\* a JSON object with the given members
Object(members) == [kind |-> "object", json |-> members]

GitHubBodies ==
    { BrokenBody, TextBody,
      Object([message |-> "Not Found"]),
      Object([name |-> "widgets", clone_url |-> "https://github.com/acme/widgets.git",
              description |-> "A widget", private |-> FALSE]),
      Object([name |-> "vault", clone_url |-> "https://github.com/acme/vault.git",
              description |-> "", private |-> TRUE]),
      Object([name |-> "bare"]) }

GitHubResponses ==
    {TransportError} \cup
    [err : {FALSE}, status : {200, 404}, body : GitHubBodies]

GiteaBodies ==
    { BrokenBody, TextBody,
      Object([message |-> "rejected"]),
      Object([id |-> 0, html_url |-> ""]),
      Object([id |-> 42, html_url |-> "https://gitea.local/me/widgets"]) }

GiteaResponses ==
    {TransportError} \cup
    [err : {FALSE}, status : {200, 201, 403, 409, 422}, body : GiteaBodies]

\* io.ReadAll(resp.Body), lines 99 and 159, succeeds
ReadAllOK(body) == body.kind # "readerr"

\* variant: the error of json.Unmarshal not looked at
UnmarshalOK_Ignored(body) == TRUE

\* json.Unmarshal, lines 106 and 166, succeeds
UnmarshalOK(body) == body.kind = "object"

\* the members json.Unmarshal finds in a body; none when it fails, which leaves
\* the target struct as it was
Members(body) == IF body.kind = "object" THEN body.json ELSE <<>>

Member(json, key, zero) == IF key \in DOMAIN json THEN json[key] ELSE zero

\* variant: the name read from another member of GitHub's object
DecodeGitHubRepo_OtherTag(body) ==
    [CloneURL    |-> Member(Members(body), "clone_url", ""),
     Description |-> Member(Members(body), "description", ""),
     Name        |-> Member(Members(body), "clone_url", ""),
     Private     |-> Member(Members(body), "private", FALSE)]

\* json.Unmarshal(giteaBody, &repo) into a zero GitHubRepo, lines 105-106:
\* members the body lacks keep their zero value, other members are ignored
DecodeGitHubRepo(body) ==
    [CloneURL    |-> Member(Members(body), "clone_url", ""),
     Description |-> Member(Members(body), "description", ""),
     Name        |-> Member(Members(body), "name", ""),
     Private     |-> Member(Members(body), "private", FALSE)]

\* json.Unmarshal(giteaBody, &giteaRepo) into a zero GiteaRepo, lines 165-166
DecodeGiteaRepo(body) ==
    [Id      |-> Member(Members(body), "id", 0),
     HtmlUrl |-> Member(Members(body), "html_url", "")]


-----------------------------------------------------------------------------
(* Returning from migrateRepo *)

Bodies == {"github", "gitea"}

\* variant: the close not deferred
PushDefer_Missing(ds, b) == ds

\* defer func(Body io.ReadCloser) {...}(resp.Body), lines 91-97 and 151-157
PushDefer(ds, b) == Append(ds, b)

\* what a deferred close logs: the error of Body.Close(), if any (lines 92-96)
CloseLog(b, failing) == IF b \in failing THEN <<"close " \o b \o ": error">> ELSE <<>>

\* the deferred closes run when migrateRepo returns, last pushed first
RECURSIVE DeferLog(_, _)
DeferLog(ds, failing) ==
    IF ds = <<>> THEN <<>>
    ELSE CloseLog(ds[Len(ds)], failing) \o DeferLog(SubSeq(ds, 1, Len(ds) - 1), failing)

Count(ds, b) == Cardinality({i \in 1..Len(ds) : ds[i] = b})

\* a return of migrateRepo after logging lg, with ds the deferred closes and
\* failing the bodies whose Close returns an error
Return(lg, ds, failing) ==
    /\ log' = lg \o DeferLog(ds, failing)
    /\ closes' = [b \in Bodies |-> closes[b] + Count(ds, b)]
    /\ defers' = <<>>
    /\ pc' = "loop"

-----------------------------------------------------------------------------
(* The reported outcome, lines 171-191 *)

\* variant: the identifier looked at before the status
Outcome_IdFirst(status, giteaRepo) ==
    IF giteaRepo.Id = 0 THEN "Repository creation failed"
    ELSE IF status = 403 THEN "Forbidden"
    ELSE IF status = 409 THEN "Repository with this name already exists"
    ELSE IF status = 422 THEN "Wrong input?"
    ELSE "Repository created: " \o giteaRepo.HtmlUrl

Outcome(status, giteaRepo) ==
    IF status = 403 THEN "Forbidden"
    ELSE IF status = 409 THEN "Repository with this name already exists"
    ELSE IF status = 422 THEN "Wrong input?"
    ELSE IF giteaRepo.Id = 0 THEN "Repository creation failed"
    ELSE "Repository created: " \o giteaRepo.HtmlUrl

-----------------------------------------------------------------------------
(* The environment *)

\* loadOptions, lines 50-57: whatever the environment variables hold, unset
\* ones being ""
OptionsSet ==
    [GiteaInstance : {"gitea.local", "gitea local"},
     GitHubToken   : {"", "ghp_secret"},
     GiteaToken    : {"gt_secret"},
     GiteaOwner    : {"me"}]

\* what a user or a pipe may write to standard input in one go
FeedChunks ==
    { "https://github.com/acme/widgets\n",
      "\n",
      "github,com/acme/widgets\n",
      "github.com/acme/widgets",
      "github.com/ac\tme/widgets\n" }

\* Data arrives on standard input.  The process looks at standard input only
\* inside ReadString, so arrivals are taken while it waits there.
Feed ==
    /\ pc = "read"
    /\ stdinOpen
    /\ Len(fed) < MaxFeeds
    /\ \E c \in FeedChunks : fed' = Append(fed, c)
    /\ UNCHANGED <<options, pos, stdinOpen, pc, iter, raw, url, match, log, net,
                   ghResp, giteaResp, defers, closes>>

\* The writing end of standard input is closed (Ctrl-D, end of the pipe).
CloseStdin ==
    /\ pc = "read"
    /\ stdinOpen
    /\ stdinOpen' = FALSE
    /\ UNCHANGED <<options, fed, pos, pc, iter, raw, url, match, log, net,
                   ghResp, giteaResp, defers, closes>>

-----------------------------------------------------------------------------
(* The program *)

NoClose == [b \in Bodies |-> 0]

Init ==
    /\ options \in OptionsSet
    /\ fed = <<>>
    /\ pos = 0
    /\ stdinOpen = TRUE
    /\ pc = "loop"
    /\ iter = 0
    /\ raw = ""
    /\ url = ""
    /\ match = <<>>
    /\ log = <<>>
    /\ net = <<>>
    /\ ghResp = NoResp
    /\ giteaResp = NoResp
    /\ defers = <<>>
    /\ closes = NoClose

\* main's for loop calls migrateRepo (line 202), which makes its reader and
\* prints the prompt (lines 60-61).  The locals of the call start fresh.
Prompt ==
    /\ pc = "loop"
    /\ pc' = "read"
    /\ raw' = ""
    /\ url' = ""
    /\ match' = <<>>
    /\ log' = <<>>
    /\ net' = <<>>
    /\ ghResp' = NoResp
    /\ giteaResp' = NoResp
    /\ defers' = <<>>
    /\ closes' = NoClose
    /\ UNCHANGED <<options, fed, pos, stdinOpen, iter>>

\* Lines 62-86: ReadString returns once a "\n" has arrived or the stream has
\* ended; then url[:len(url)-1], the match, and the GET is handed to
\* http.DefaultClient.  Slicing an empty string to [:-1] panics, which ends the
\* process.
ReadLine ==
    /\ pc = "read"
    /\ IndexNewline(Stdin, 1) > 0 \/ ~stdinOpen
    /\ \E n \in ReadAmounts(Stdin) :
         LET r   == ReadString(Stdin)
             u   == SubSeq(r, 1, Len(r) - 1)
             m   == FindStringSubmatch(u)
             req == GitHubRequest(m[2], m[3])
         IN  /\ pos' = pos + n
             /\ iter' = iter + 1
             /\ raw' = r
             /\ IF Len(r) = 0
                THEN /\ pc' = "panicked"
                     /\ UNCHANGED <<url, match, log, net, defers, closes>>
                ELSE /\ url' = u
                     /\ match' = m
                     /\ IF Len(m) # 3
                        THEN /\ net' = net
                             /\ Return(<<"Invalid GitHub URL">>, <<>>, {})
                        ELSE IF URLParseFails(req.url)
                        THEN /\ net' = net
                             /\ Return(<<"error: NewRequest GET">>, <<>>, {})
                        ELSE /\ net' = Append(net, req)
                             /\ log' = <<"Getting GitHub repo info...">>
                             /\ pc' = "github"
                             /\ UNCHANGED <<defers, closes>>
    /\ UNCHANGED <<options, fed, stdinOpen, ghResp, giteaResp>>

\* Lines 86-146: GitHub's response (any status), its body read and decoded,
\* the migration request built and handed to a new http.Client.  json.Marshal
\* (line 128) cannot fail on a struct of strings and booleans, so its error
\* branch (lines 129-132) is never taken.
GitHubDo ==
    /\ pc = "github"
    /\ \E resp \in GitHubResponses, failing \in SUBSET Bodies :
         LET ds   == PushDefer(defers, "github")
             repo == DecodeGitHubRepo(resp.body)
             req  == GiteaRequest(repo)
         IN  /\ ghResp' = resp
             /\ IF resp.err
                THEN /\ net' = net
                     /\ Return(log \o <<"error: Do GET">>, defers, failing)
                ELSE IF ~ReadAllOK(resp.body)
                THEN /\ net' = net
                     /\ Return(log \o <<"error: ReadAll GitHub">>, ds, failing)
                ELSE IF ~UnmarshalOK(resp.body)
                THEN /\ net' = net
                     /\ Return(log \o <<"error: Unmarshal GitHub">>, ds, failing)
                ELSE IF URLParseFails(req.url)
                THEN /\ net' = net
                     /\ Return(log \o <<"Got repo: " \o repo.Name,
                                        "error: NewRequest POST">>, ds, failing)
                ELSE /\ net' = Append(net, req)
                     /\ log' = log \o <<"Got repo: " \o repo.Name,
                                        "Creating Gitea repository...">>
                     /\ defers' = ds
                     /\ pc' = "gitea"
                     /\ closes' = closes
    /\ UNCHANGED <<options, fed, pos, stdinOpen, iter, raw, url, match, giteaResp>>

\* Lines 146-192: Gitea's response, its body read and decoded, the outcome
\* logged.
GiteaDo ==
    /\ pc = "gitea"
    /\ \E resp \in GiteaResponses, failing \in SUBSET Bodies :
         LET ds == PushDefer(defers, "gitea")
         IN  /\ giteaResp' = resp
             /\ IF resp.err
                THEN Return(log \o <<"error: Do POST">>, defers, failing)
                ELSE IF ~ReadAllOK(resp.body)
                THEN Return(log \o <<"error: ReadAll Gitea">>, ds, failing)
                ELSE IF ~UnmarshalOK(resp.body)
                THEN Return(log \o <<"error: Unmarshal Gitea">>, ds, failing)
                ELSE Return(log \o <<Outcome(resp.status, DecodeGiteaRepo(resp.body))>>,
                            ds, failing)
    /\ UNCHANGED <<options, fed, pos, stdinOpen, iter, raw, url, match, net, ghResp>>

Next == Feed \/ CloseStdin \/ Prompt \/ ReadLine \/ GitHubDo \/ GiteaDo

Spec == Init /\ [][Next]_vars


-----------------------------------------------------------------------------
(* The parser on its own: one prompt, one line, lines drawn from pieces *)

Prefixes == {"", "https://", "http://www.", "see "}

Hosts == {"github.com", "githubxcom"}

TailPieces == {"/a", " b", "/", "/github.com"}

\* the concatenations of at most n tail pieces
RECURSIVE TailsUpTo(_)
TailsUpTo(n) ==
    IF n = 0 THEN {""}
    ELSE LET shorter == TailsUpTo(n - 1)
         IN  shorter \cup {t \o q : t \in shorter, q \in TailPieces}

ParseLines == {p \o h \o t : p \in Prefixes, h \in Hosts, t \in TailsUpTo(MaxSegs)}

ParseInit ==
    /\ options = [GiteaInstance |-> "gitea.local", GitHubToken |-> "ghp_secret",
                  GiteaToken |-> "gt_secret", GiteaOwner |-> "me"]
    /\ \E line \in ParseLines : fed = <<line \o "\n">>
    /\ pos = 0
    /\ stdinOpen = TRUE
    /\ pc = "read"
    /\ iter = 0
    /\ raw = ""
    /\ url = ""
    /\ match = <<>>
    /\ log = <<>>
    /\ net = <<>>
    /\ ghResp = NoResp
    /\ giteaResp = NoResp
    /\ defers = <<>>
    /\ closes = NoClose

ParseSpec == ParseInit /\ [][ReadLine]_vars

-----------------------------------------------------------------------------
(* Vocabulary of the properties *)

NoSlash(t) == \A k \in 1..Len(t) : At(t, k) # "/"

\* s holds, from index i on, "github.com/", lo characters other than "/", a "/"
\* and lr characters other than "/"
PatternAt(s, i, lo, lr) ==
    /\ lo >= 1
    /\ lr >= 1
    /\ i + 11 + lo + lr <= Len(s)
    /\ SubSeq(s, i, i + 10) = "github.com/"
    /\ At(s, i + 11 + lo) = "/"
    /\ NoSlash(SubSeq(s, i + 11, i + 10 + lo))
    /\ NoSlash(SubSeq(s, i + 12 + lo, i + 11 + lo + lr))

StartsPattern(s, i) ==
    /\ i + 10 <= Len(s)
    /\ SubSeq(s, i, i + 10) = "github.com/"
    /\ \E lo \in 1..Len(s) : \E lr \in 1..Len(s) : PatternAt(s, i, lo, lr)

ContainsPattern(s) == \E i \in 1..Len(s) : StartsPattern(s, i)

\* the line the last ReadString took, without its newline
InputLine ==
    IF Len(raw) > 0 /\ At(raw, Len(raw)) = "\n" THEN SubSeq(raw, 1, Len(raw) - 1) ELSE raw

\* the iteration's read has returned
LineTaken == iter >= 1 /\ pc \in {"loop", "github", "gitea"}

StatusMessages ==
    {"Forbidden", "Repository with this name already exists", "Wrong input?",
     "Repository creation failed"}

IsCreated(m) == Len(m) >= 20 /\ SubSeq(m, 1, 20) = "Repository created: "

InLog(m) == \E k \in 1..Len(log) : log[k] = m

\* the iteration is over and Gitea's response was received in it
GiteaAnswered == pc = "loop" /\ giteaResp # NoResp /\ ~giteaResp.err

GitHubDecoded == ghResp # NoResp /\ ~ghResp.err /\ ghResp.body.kind = "object"

GiteaDecoded == GiteaAnswered /\ giteaResp.body.kind = "object"

\* the members of a decoded body, read directly
GiteaId == IF "id" \in DOMAIN giteaResp.body.json THEN giteaResp.body.json.id ELSE 0

GiteaHtmlUrl ==
    IF "html_url" \in DOMAIN giteaResp.body.json THEN giteaResp.body.json.html_url ELSE ""

GitHubPrivate ==
    IF "private" \in DOMAIN ghResp.body.json THEN ghResp.body.json.private ELSE FALSE

\* the line log carries after "Creating Gitea repository..."
Reported == log[4]


-----------------------------------------------------------------------------
(* C4: what the parser yields *)

\* the leftmost index at which the pattern occurs in s
LeftmostStart(s) == CHOOSE i \in 1..Len(s) :
    StartsPattern(s, i) /\ \A j \in 1..(i - 1) : ~StartsPattern(s, j)

\* the owner's length at i: the "/" after it fixes it
OwnerLen(s, i) == CHOOSE lo \in 1..Len(s) : \E lr \in 1..Len(s) : PatternAt(s, i, lo, lr)

\* the longest repo at i after an owner of lo characters
RepoLen(s, i, lo) == CHOOSE lr \in 1..Len(s) :
    /\ PatternAt(s, i, lo, lr)
    /\ \A more \in (lr + 1)..Len(s) : ~PatternAt(s, i, lo, more)

\* C4 as stated: wherever the line holds github.com/<owner>/<repo>, followed
\* by the end of the line, a further path segment or other text, the parser
\* yields exactly that owner and that repo.
C4_AsClaimed ==
    LineTaken =>
        \A i \in 1..Len(url) : \A lo \in 1..Len(url) : \A lr \in 1..Len(url) :
            ( /\ PatternAt(url, i, lo, lr)
              /\ \/ i + 11 + lo + lr = Len(url)
                 \/ At(url, i + 12 + lo + lr) \in {"/", " "} )
            => /\ Len(match) = 3
               /\ match[2] = SubSeq(url, i + 11, i + 10 + lo)
               /\ match[3] = SubSeq(url, i + 12 + lo, i + 11 + lo + lr)

\* C4 amended: the parser yields the owner and repo of the leftmost
\* occurrence of github.com/<owner>/<repo>, the owner being the text up to the
\* next "/" and the repo all the text after that "/" up to the following "/" or
\* the end of the line.  Text before the host and path segments after the repo
\* do not matter; text that follows the repo without a "/" is part of the repo.
\* A line without an occurrence yields no match.
C4_LeftmostMaximal ==
    LineTaken =>
        IF ContainsPattern(url)
        THEN LET i  == LeftmostStart(url)
                 lo == OwnerLen(url, i)
                 lr == RepoLen(url, i, lo)
             IN  match = << SubSeq(url, i, i + 11 + lo + lr),
                            SubSeq(url, i + 11, i + 10 + lo),
                            SubSeq(url, i + 12 + lo, i + 11 + lo + lr) >>
        ELSE match = <<>>

\* a line with text before the host, a trailing path segment and text glued
\* to the repo, parsed
C4_Witness ==
    /\ pc = "github"
    /\ url = "see github.com/a/a b/a"
    /\ match = <<"github.com/a/a b", "a", "a b">>
    /\ net[1].url = "https://api.github.com/repos/a/a b"


-----------------------------------------------------------------------------
(* C1: the reported outcome *)

\* C1: once Gitea has answered, the outcome is the first case that applies:
\* an unreadable or undecodable body logs only the error, and no status
\* message, whatever the status; then 403, 409, 422 by status, whatever the id;
\* then id 0; otherwise "Repository created: " with the decoded html_url.
\* Success is reported exactly when the body decodes, the status is none of
\* 403, 409, 422 and the id is not 0.
C1_OutcomeOrder ==
    GiteaAnswered =>
        /\ Len(log) >= 4
        /\ \A k \in 1..Len(log) :
              (log[k] \in StatusMessages \/ IsCreated(log[k])) => k = 4
        /\ IF ~GiteaDecoded
           THEN Reported \in {"error: ReadAll Gitea", "error: Unmarshal Gitea"}
           ELSE IF giteaResp.status = 403 THEN Reported = "Forbidden"
           ELSE IF giteaResp.status = 409
                THEN Reported = "Repository with this name already exists"
           ELSE IF giteaResp.status = 422 THEN Reported = "Wrong input?"
           ELSE IF GiteaId = 0 THEN Reported = "Repository creation failed"
           ELSE Reported = "Repository created: " \o GiteaHtmlUrl
        /\ IsCreated(Reported) <=>
              /\ GiteaDecoded
              /\ giteaResp.status \notin {403, 409, 422}
              /\ GiteaId # 0

\* a rejection by status although the body carries a non-zero id
C1_Witness ==
    /\ GiteaDecoded
    /\ giteaResp.status = 409
    /\ GiteaId = 42
    /\ Reported = "Repository with this name already exists"

-----------------------------------------------------------------------------
(* C2: the migration request *)

PostsSent == {k \in 1..Len(net) : net[k].method = "POST"}

\* C2 as stated: auth_token is the configured GitHub token if and only if the
\* descriptor is private, and "" when it is not; private is copied; mirror and
\* wiki are true and service is "github".
C2_AsClaimed ==
    \A k \in PostsSent :
        LET b == net[k].body[1]
        IN  /\ (b.auth_token = options.GitHubToken) <=> (GitHubPrivate = TRUE)
            /\ (GitHubPrivate = FALSE) => b.auth_token = ""
            /\ b.private = GitHubPrivate
            /\ b.mirror = TRUE /\ b.wiki = TRUE /\ b.service = "github"

\* C2 amended: auth_token is the configured GitHub token whenever the
\* descriptor is private and "" whenever it is not (so it equals the token
\* exactly for private descriptors only if the configured token is not empty);
\* private is copied; mirror and wiki are true and service is "github".
C2_TokenOnlyForPrivate ==
    \A k \in PostsSent :
        LET b == net[k].body[1]
        IN  /\ (GitHubPrivate = TRUE) => b.auth_token = options.GitHubToken
            /\ (GitHubPrivate = FALSE) => b.auth_token = ""
            /\ (options.GitHubToken # "") =>
                  ((b.auth_token = options.GitHubToken) <=> (GitHubPrivate = TRUE))
            /\ b.private = GitHubPrivate
            /\ b.mirror = TRUE /\ b.wiki = TRUE /\ b.service = "github"

\* a request sent for a descriptor whose private member was absent, with a
\* token configured
C2_Witness ==
    /\ PostsSent # {}
    /\ options.GitHubToken = "ghp_secret"
    /\ "private" \notin DOMAIN ghResp.body.json
    /\ net[2].body[1].auth_token = ""

-----------------------------------------------------------------------------
(* C3: a line without a GitHub URL *)

\* C3: an iteration whose input line holds no github.com/<owner>/<repo>
\* issues no request, neither the GET nor the POST, and, a line having been
\* read, reports "Invalid GitHub URL" and returns to the loop.
C3_NoMatchNoRequest ==
    (iter >= 1 /\ pc # "read" /\ ~ContainsPattern(InputLine)) =>
        /\ net = <<>>
        /\ ghResp = NoResp /\ giteaResp = NoResp
        /\ (raw # "") => (pc = "loop" /\ log = <<"Invalid GitHub URL">>)

\* a non-empty line without the pattern was read and rejected
C3_Witness ==
    /\ pc = "loop"
    /\ raw = "github,com/acme/widgets\n"
    /\ log = <<"Invalid GitHub URL">>
    /\ net = <<>>


-----------------------------------------------------------------------------
(* C5, C6: failures and the end of input *)

\* C5: no failure ends the process: an iteration that fails has logged a
\* message, has retried nothing, and is back in the loop, which prompts again;
\* the process never terminates by itself.
C5_NoFailureIsFatal ==
    /\ pc # "panicked"
    /\ (pc = "loop" /\ iter >= 1) => (Len(log) >= 1 /\ Len(net) <= 2)

\* C6: a read that returns nothing, standard input being closed, is handled
\* like an empty line: "Invalid GitHub URL", no request, back to the loop.
C6_EndOfInputLikeEmptyLine ==
    (iter >= 1 /\ pc # "read" /\ raw = "") =>
        /\ pc = "loop"
        /\ log = <<"Invalid GitHub URL">>
        /\ net = <<>>

-----------------------------------------------------------------------------
(* C7: GitHub's status is not looked at *)

HasSpace(t) == \E k \in 1..Len(t) : At(t, k) = " "

\* the migration request body the decoded GitHub body calls for, members
\* absent from it taken as "" and FALSE
ExpectedBody ==
    LET j == ghResp.body.json
    IN  [auth_token  |-> IF GitHubPrivate THEN options.GitHubToken ELSE "",
         clone_addr  |-> IF "clone_url" \in DOMAIN j THEN j.clone_url ELSE "",
         description |-> IF "description" \in DOMAIN j THEN j.description ELSE "",
         mirror      |-> TRUE,
         private     |-> GitHubPrivate,
         repo_name   |-> IF "name" \in DOMAIN j THEN j.name ELSE "",
         repo_owner  |-> options.GiteaOwner,
         service     |-> "github",
         wiki        |-> TRUE]

PostIssued ==
    /\ Len(net) = 2
    /\ net[2].method = "POST"
    /\ net[2].body = <<ExpectedBody>>

\* C7 as stated: whenever GitHub's response, of any status, has a body that
\* decodes, the POST to Gitea is issued, built from the decoded descriptor with
\* absent members as zero values.
C7_AsClaimed == GitHubDecoded => PostIssued

\* C7 amended: whenever GitHub's response, of any status, has a body that
\* decodes, and the URL built from GITEA_INSTANCE is one http.NewRequest
\* accepts, the POST to Gitea is issued, built from the decoded descriptor with
\* absent members as zero values; when http.NewRequest rejects the URL the
\* error is logged and no POST is issued.
C7_StatusIgnored ==
    GitHubDecoded =>
        IF HasSpace(options.GiteaInstance)
        THEN Len(net) = 1 /\ pc = "loop" /\ InLog("error: NewRequest POST")
        ELSE PostIssued

\* a 404 whose body is GitHub's error object led to a POST with an empty
\* descriptor
C7_Witness ==
    /\ GitHubDecoded
    /\ ghResp.status = 404
    /\ ghResp.body.json = [message |-> "Not Found"]
    /\ PostIssued
    /\ net[2].body[1].repo_name = "" /\ net[2].body[1].clone_addr = ""

-----------------------------------------------------------------------------
(* C8: one GET, then one POST, then the next prompt *)

C8_Step ==
    /\ Len(net') <= 2
    /\ net' # net =>
          \/ net' = <<>> /\ pc = "loop" /\ pc' = "read"
          \/ Len(net') = Len(net) + 1 /\ SubSeq(net', 1, Len(net)) = net
    /\ (Len(net) = 0 /\ Len(net') = 1) => (net'[1].method = "GET" /\ pc = "read")
    /\ (Len(net) = 1 /\ Len(net') = 2) =>
          /\ net'[2].method = "POST"
          /\ net[1].method = "GET"
          /\ pc = "github"
          /\ ~ghResp'.err /\ ghResp'.body.kind = "object"
    /\ (pc = "github" /\ pc' # "github" /\ (ghResp'.err \/ ghResp'.body.kind # "object")) =>
          (net' = net /\ pc' = "loop")
    /\ (pc' = "read" /\ pc # "read") => pc = "loop"
    /\ (pc = "gitea" /\ pc' # "gitea") => (net' = net /\ pc' = "loop")

\* C8: in every iteration at most one GET and at most one POST are issued, the
\* POST only after the GET has returned and its body has been decoded; a
\* transport or decode failure on the GET ends the iteration without a POST;
\* and the next prompt comes only after the iteration has returned.
C8_Sequential == [][C8_Step]_vars

\* both requests of an iteration were issued, in order, and the loop is back
C8_Witness ==
    /\ pc = "loop"
    /\ Len(net) = 2
    /\ net[1].method = "GET" /\ net[2].method = "POST"
    /\ GiteaAnswered

-----------------------------------------------------------------------------
(* C9: response bodies are closed *)

Acquired(b) ==
    IF b = "github" THEN ghResp # NoResp /\ ~ghResp.err
    ELSE giteaResp # NoResp /\ ~giteaResp.err

IsCloseError(m) == m \in {"close github: error", "close gitea: error"}

\* C9: every body the iteration acquired is closed exactly once by the time
\* the iteration ends, on every exit path, and none is closed twice; a close
\* that fails is logged after everything else and neither keeps the other
\* body open nor keeps the iteration from returning to the loop.
C9_BodiesClosedOnce ==
    /\ \A b \in Bodies : closes[b] <= 1
    /\ pc = "loop" =>
          /\ defers = <<>>
          /\ \A b \in Bodies : closes[b] = IF Acquired(b) THEN 1 ELSE 0
    /\ \A k \in 1..Len(log) : IsCloseError(log[k]) =>
          /\ pc = "loop"
          /\ \A b \in Bodies : Acquired(b) => closes[b] = 1
          /\ \A later \in (k + 1)..Len(log) : IsCloseError(log[later])

\* Gitea's body failed to close, and GitHub's was closed all the same, on the
\* exit path of an undecodable Gitea body
C9_Witness ==
    /\ pc = "loop"
    /\ giteaResp # NoResp /\ ~giteaResp.err /\ giteaResp.body.kind = "text"
    /\ InLog("close gitea: error") /\ ~InLog("close github: error")
    /\ closes = [b \in Bodies |-> 1]

-----------------------------------------------------------------------------
(* C10: one line per iteration *)

\* s without its first line
AfterFirstLine(s) ==
    LET p == IndexNewline(s, 1) IN IF p > 0 THEN SubSeq(s, p + 1, Len(s)) ELSE ""

\* number of lines of s, a last line without newline counted
RECURSIVE NumLines(_)
NumLines(s) == IF s = "" THEN 0 ELSE 1 + NumLines(AfterFirstLine(s))

\* the k-th line of s, without its newline
RECURSIVE LineAt(_, _)
LineAt(s, k) ==
    IF k > 1 THEN LineAt(AfterFirstLine(s), k - 1)
    ELSE LET p == IndexNewline(s, 1) IN IF p > 0 THEN SubSeq(s, 1, p - 1) ELSE s

\* C10: the k-th iteration parses the k-th line written to standard input,
\* all of its characters but the newline, also when the line is the last one
\* and has no newline; no line is lost, so the input runs out only in an
\* iteration beyond the last line.
C10_KthIterationKthLine ==
    /\ LineTaken => (iter <= NumLines(Flatten(fed)) /\ url = LineAt(Flatten(fed), iter))
    /\ pc = "panicked" => iter > NumLines(Flatten(fed))

=============================================================================
